---- MODULE Spec2Model ----
(***************************************************************************)
(* Model of the Recursive AI Executor (src/raie.py): the retry loop        *)
(* execute_recursive_ai, the code generation client's result handling,     *)
(* the sandbox runner CodeExecutor.execute_python_code and the session     *)
(* state the Streamlit script keeps between runs.                          *)
(*                                                                         *)
(* Texts of generated programs are sequences of lines (the empty text is   *)
(* the empty sequence).  Python lists that live in the session state are   *)
(* objects on a heap: a variable or a history entry holds a reference      *)
(* (an index into heap), so aliasing between the live log list and the     *)
(* lists stored in history entries is part of the model.                   *)
(***************************************************************************)
EXTENDS Integers, Sequences, FiniteSets, TLC

VARIABLES
    execution_history,  \* st.session_state.execution_history: sequence of history entries
    current_attempt,    \* st.session_state.current_attempt
    generated_code,     \* st.session_state.generated_code
    execution_logs,     \* st.session_state.execution_logs: reference into heap
    is_running,         \* st.session_state.is_running
    heap,               \* the list objects reachable from the session state
    pc,                 \* position of the script: idle, generate, execute, finalize, returned, raised
    prompt,             \* argument of execute_recursive_ai
    max_attempts,       \* argument of execute_recursive_ai
    attempt,            \* loop variable of: for attempt in range(max_attempts)
    all_attempts,       \* local list all_attempts
    success,            \* local flag success
    status_text,        \* last text put into the status_text placeholder
    errors,             \* st.error messages shown by the current run
    disk,               \* temporary artifacts present on disk
    last_call,          \* outcome of the latest execute_python_code call
    gen_calls,          \* number of generate_code calls made by the current run
    sandbox_calls,      \* number of execute_python_code calls made by the current run
    runs,               \* number of runs started so far
    budget,             \* sum of max_attempts over the runs started so far
    clears,             \* number of Clear History clicks so far
    tmp_seq,            \* number of temporary artifacts created so far
    gen_request,        \* arguments and prompts of the latest generate_code call of the current run
    stderr_in,          \* the text categorize_error is exercised on
    error_info,         \* what categorize_error returned for stderr_in
    classified,         \* categorize_error has been called on stderr_in
    history_in,         \* the attempts build_learning_context is exercised on
    learning_context,   \* what the latest build_learning_context call returned
    build_calls         \* number of build_learning_context calls on history_in

vars == <<execution_history, current_attempt, generated_code, execution_logs,
          is_running, heap, pc, prompt, max_attempts, attempt, all_attempts,
          success, status_text, errors, disk, last_call, gen_calls,
          sandbox_calls, runs, budget, clears, tmp_seq, gen_request,
          stderr_in, error_info, classified, history_in, learning_context,
          build_calls>>

\* the session state, the locals of the script and the sandbox
sessionVars == <<execution_history, current_attempt, generated_code,
                 execution_logs, is_running, heap, pc, prompt, max_attempts,
                 attempt, all_attempts, success, status_text, errors, disk,
                 last_call, gen_calls, sandbox_calls, runs, budget, clears,
                 tmp_seq, gen_request>>

\* the variables of the two functions of ErrorAnalyzer exercised on their own
pureVars == <<stderr_in, error_info, classified, history_in, learning_context,
              build_calls>>

(***************************************************************************)
(* Bounds of the model.                                                    *)
(***************************************************************************)
\* the attempts a session may ask for in total, over all its runs
MaxBudget == 3
\* the largest max_attempts a run is started with (the slider ends at 10)
MaxAttemptsBound == 3
\* the Clear History clicks of a session
MaxClears == 1
\* the calls of the sandbox runner when it is exercised on its own
MaxCalls == 3

Prompts == {"task"}

\* Lines a backend response is made of; <fence> stands for three backquotes.
FencePython == "<fence>python"
Fence == "<fence>"

\* Raw contents the backend may put into choices[0].message.content.
RawContents ==
    { <<>>,
      <<FencePython, Fence>>,
      <<"x = 1">>,
      <<FencePython, "y = 2", Fence>> }

\* What the HTTP exchange of generate_code can end in.
Responses ==
    { [kind |-> "request_exception", content |-> <<>>],
      [kind |-> "malformed", content |-> <<>>] }
    \cup { [kind |-> "content", content |-> c] : c \in RawContents }

(***************************************************************************)
(* MistralAIClient._clean_generated_code and generate_code.                *)
(***************************************************************************)
RECURSIVE SelectIdx(_, _, _)
\* the subsequence of s at the indices of keep, in order
SelectIdx(s, keep, i) ==
    IF i > Len(s) THEN <<>>
    ELSE IF i \in keep THEN <<s[i]>> \o SelectIdx(s, keep, i + 1)
    ELSE SelectIdx(s, keep, i + 1)

RECURSIVE StripLeft(_)
StripLeft(s) ==
    IF s = <<>> THEN <<>>
    ELSE IF Head(s) = "" THEN StripLeft(Tail(s))
    ELSE s

RECURSIVE StripRight(_)
StripRight(s) ==
    IF s = <<>> THEN <<>>
    ELSE IF s[Len(s)] = "" THEN StripRight(SubSeq(s, 1, Len(s) - 1))
    ELSE s

\* str.strip() on a text whose lines are either empty or free of outer blanks
Strip(s) == StripRight(StripLeft(s))

\* First substitution: a FencePython line together with its newline is removed
\* (the pattern needs the newline, so a last line is kept).
\* Second substitution: a Fence line becomes an empty line.
\* Third substitution: any other line starting with a fence and ending in a
\* newline is removed; after the first two none is left among these lines.
\* Then the text is stripped.
_clean_generated_code(code) ==
    LET kept == SelectIdx(code, {i \in 1..Len(code) : ~(code[i] = FencePython /\ i < Len(code))}, 1)
        blanked == [i \in 1..Len(kept) |-> IF kept[i] = Fence THEN "" ELSE kept[i]]
    IN Strip(blanked)

\* The value generate_code returns: None on any exception, else the cleaned text.
NoneCode == [is_none |-> TRUE, text |-> <<>>]

generate_code(resp) ==
    IF resp.kind = "content"
    THEN [is_none |-> FALSE, text |-> _clean_generated_code(Strip(resp.content))]
    ELSE NoneCode

\* the test made by: if not generated_code
NotCode(g) == g.is_none \/ g.text = <<>>

(***************************************************************************)
(* Texts of the standard error stream.  A text is a sequence of chunks;    *)
(* a chunk is a word or phrase, the phrase no module named '<name>', the   *)
(* phrase name '<name>' is not defined, or the phrase line <n>.  A chunk   *)
(* keeps its spelling in lower case next to a flag that tells whether the  *)
(* text writes it with capital letters (NameError, Line 3, 'PIL'), so that *)
(* str.lower and a case-sensitive search are not the identity.  The empty  *)
(* text is the empty sequence.                                             *)
(***************************************************************************)
\* the longest text categorize_error is exercised on, in chunks
MaxTextLen == 3

Word(w, caps) ==
    [k |-> "word", w |-> w, caps |-> caps, ncaps |-> FALSE, n |-> 0]
NoModule(name, ncaps, caps) ==
    [k |-> "nomodule", w |-> name, caps |-> caps, ncaps |-> ncaps, n |-> 0]
NotDefined(name, ncaps) ==
    [k |-> "notdefined", w |-> name, caps |-> FALSE, ncaps |-> ncaps, n |-> 0]
LineRef(n, caps) ==
    [k |-> "line", w |-> "", caps |-> caps, ncaps |-> FALSE, n |-> n]

\* a name as a text spells it, and the absence of a name
Name(w, caps) == [w |-> w, caps |-> caps]
NoName == Name("", FALSE)

\* the exception names the chain of categorize_error looks for
ErrorNames ==
    {"syntaxerror", "modulenotfounderror", "importerror", "nameerror",
     "typeerror", "indexerror", "keyerror", "indentationerror"}

\* The chunks texts are made of: exception names as Python prints them
\* (SyntaxError), one already in lower case, the phrases of the sub-cases
\* (unexpected EOF has capitals), missing modules PIL and os, undefined names
\* x and X, line references line 1, line 2 and Line 1, and the word Traceback.
Chunks ==
    {Word(w, TRUE) : w \in ErrorNames}
    \cup {Word("nameerror", FALSE), Word("unexpected eof", TRUE),
          Word("traceback", TRUE)}
    \cup {Word(w, FALSE) : w \in {"invalid syntax", "takes",
                                  "positional argument", "unsupported operand"}}
    \cup {NoModule("pil", TRUE, TRUE), NoModule("os", FALSE, TRUE)}
    \cup {NotDefined("x", FALSE), NotDefined("x", TRUE)}
    \cup {LineRef(1, FALSE), LineRef(2, FALSE), LineRef(1, TRUE)}

\* the texts of l chunks
Texts(l) == [1..l -> Chunks]

\* str.lower
lower(text) ==
    [i \in 1..Len(text) |-> [text[i] EXCEPT !.caps = FALSE, !.ncaps = FALSE]]

\* word in text: the substring test, sensitive to case
In(word, text) ==
    \E i \in 1..Len(text) :
        text[i].k = "word" /\ text[i].w = word /\ ~text[i].caps

\* re.search(pattern, text) for the three patterns, each with one group: the
\* positions where the pattern matches, the leftmost match, and its group
Matches(kind, text) ==
    {i \in 1..Len(text) : text[i].k = kind /\ ~text[i].caps}
search(kind, text) ==
    CHOOSE i \in Matches(kind, text) : \A j \in Matches(kind, text) : i <= j
group_name(kind, text) ==
    LET c == text[search(kind, text)] IN Name(c.w, c.ncaps)
group_int(kind, text) == text[search(kind, text)].n

(***************************************************************************)
(* ErrorAnalyzer.categorize_error.  specific_issue and the suggestions     *)
(* are records of a fixed text and the name an f-string puts into it.      *)
(***************************************************************************)
Issue(text, name) == [text |-> text, name |-> name]
NoIssue == Issue("", NoName)
Suggestion(text, name) == [text |-> text, name |-> name]

\* line_number: None
None == -1

\* error_info that starts with a generic suggestion
error_info_Generic ==
    [category |-> "unknown", specific_issue |-> NoIssue, line_number |-> None,
     missing_imports |-> <<>>, syntax_issues |-> <<>>, runtime_issues |-> <<>>,
     suggestions |-> <<Suggestion("Review the error output", NoName)>>]

error_info_default ==
    [category |-> "unknown", specific_issue |-> NoIssue, line_number |-> None,
     missing_imports |-> <<>>, syntax_issues |-> <<>>, runtime_issues |-> <<>>,
     suggestions |-> <<>>]

\* the chain with the test for nameerror moved to the front
branch_NameFirst(stderr_lower) ==
    IF In("nameerror", stderr_lower) THEN "name"
    ELSE IF In("syntaxerror", stderr_lower) THEN "syntax"
    ELSE IF In("modulenotfounderror", stderr_lower)
            \/ In("importerror", stderr_lower) THEN "import"
    ELSE IF In("typeerror", stderr_lower) THEN "type"
    ELSE IF In("indexerror", stderr_lower) THEN "index"
    ELSE IF In("keyerror", stderr_lower) THEN "key"
    ELSE IF In("indentationerror", stderr_lower) THEN "indentation"
    ELSE "unknown"

\* the branch of the if/elif chain that is taken for the lowered text
branch(stderr_lower) ==
    IF In("syntaxerror", stderr_lower) THEN "syntax"
    ELSE IF In("modulenotfounderror", stderr_lower)
            \/ In("importerror", stderr_lower) THEN "import"
    ELSE IF In("nameerror", stderr_lower) THEN "name"
    ELSE IF In("typeerror", stderr_lower) THEN "type"
    ELSE IF In("indexerror", stderr_lower) THEN "index"
    ELSE IF In("keyerror", stderr_lower) THEN "key"
    ELSE IF In("indentationerror", stderr_lower) THEN "indentation"
    ELSE "unknown"

syntax_branch(info, stderr_lower) ==
    LET i == [info EXCEPT !.category = "syntax"] IN
    IF In("invalid syntax", stderr_lower)
    THEN [i EXCEPT !.specific_issue = Issue("invalid_syntax", NoName),
                   !.suggestions = Append(@,
                       Suggestion("Check parentheses, brackets, and indentation", NoName))]
    ELSE IF In("unexpected eof", stderr_lower)
    THEN [i EXCEPT !.specific_issue = Issue("unexpected_eof", NoName),
                   !.suggestions = Append(@,
                       Suggestion("Missing closing brackets or incomplete statements", NoName))]
    ELSE i

\* the import branch without the extraction of the module name
import_branch_NoModuleName(info, stderr_lower) ==
    [info EXCEPT !.category = "import"]

import_branch(info, stderr_lower) ==
    LET i == [info EXCEPT !.category = "import"] IN
    IF Matches("nomodule", stderr_lower) # {}
    THEN LET module == group_name("nomodule", stderr_lower) IN
         [i EXCEPT !.missing_imports = Append(@, module),
                   !.suggestions = Append(@,
                       Suggestion("Add import for {} or use standard library alternative", module))]
    ELSE i

name_branch(info, stderr_lower) ==
    LET i == [info EXCEPT !.category = "name"] IN
    IF Matches("notdefined", stderr_lower) # {}
    THEN LET undefined_name == group_name("notdefined", stderr_lower) IN
         [i EXCEPT !.specific_issue = Issue("undefined_variable: {}", undefined_name),
                   !.suggestions = Append(@,
                       Suggestion("Define variable '{}' before using it", undefined_name))]
    ELSE i

type_branch(info, stderr_lower) ==
    LET i == [info EXCEPT !.category = "type"] IN
    IF In("takes", stderr_lower) /\ In("positional argument", stderr_lower)
    THEN [i EXCEPT !.specific_issue = Issue("wrong_arguments", NoName),
                   !.suggestions = Append(@,
                       Suggestion("Check function arguments and their count", NoName))]
    ELSE IF In("unsupported operand", stderr_lower)
    THEN [i EXCEPT !.specific_issue = Issue("incompatible_types", NoName),
                   !.suggestions = Append(@,
                       Suggestion("Check data types in operations", NoName))]
    ELSE i

index_branch(info) ==
    [info EXCEPT !.category = "index",
                 !.suggestions = Append(@,
                     Suggestion("Check list/array bounds before accessing", NoName))]

key_branch(info) ==
    [info EXCEPT !.category = "key",
                 !.suggestions = Append(@,
                     Suggestion("Check if dictionary key exists before accessing", NoName))]

\* the indentation branch that forgets the category
indentation_branch_NoCategory(info) ==
    [info EXCEPT !.suggestions = Append(@,
                     Suggestion("Fix indentation - use consistent spaces or tabs", NoName))]

indentation_branch(info) ==
    [info EXCEPT !.category = "indentation",
                 !.suggestions = Append(@,
                     Suggestion("Fix indentation - use consistent spaces or tabs", NoName))]

\* the trailing pass taking the last line <digits> instead of the first
line_match_Last(info, stderr) ==
    IF Matches("line", stderr) # {}
    THEN [info EXCEPT !.line_number =
             stderr[CHOOSE i \in Matches("line", stderr) :
                        \A j \in Matches("line", stderr) : j <= i].n]
    ELSE info

\* the trailing pass: the first line <digits> of the text as it was given
line_match(info, stderr) ==
    IF Matches("line", stderr) # {}
    THEN [info EXCEPT !.line_number = group_int("line", stderr)]
    ELSE info

categorize_error(stderr) ==
    IF stderr = <<>> THEN error_info_default
    ELSE LET stderr_lower == lower(stderr)
             b == branch(stderr_lower)
             info ==
                 CASE b = "syntax" -> syntax_branch(error_info_default, stderr_lower)
                   [] b = "import" -> import_branch(error_info_default, stderr_lower)
                   [] b = "name" -> name_branch(error_info_default, stderr_lower)
                   [] b = "type" -> type_branch(error_info_default, stderr_lower)
                   [] b = "index" -> index_branch(error_info_default)
                   [] b = "key" -> key_branch(error_info_default)
                   [] b = "indentation" -> indentation_branch(error_info_default)
                   [] OTHER -> error_info_default
         IN line_match(info, stderr)

(***************************************************************************)
(* ErrorAnalyzer.build_learning_context.  The text it returns is a         *)
(* sequence of lines; a line is a fixed text with the values an f-string   *)
(* puts into it.  The empty text is the empty sequence.                    *)
(***************************************************************************)
TextLine(text) ==
    [text |-> text, category |-> "", n |-> 0, issue |-> NoIssue,
     suggestion |-> Suggestion("", NoName)]
\* f"- {category.upper()} errors occurred {len(errors)} times"
CountLine(category, n) ==
    [TextLine("- {} errors occurred {} times") EXCEPT
        !.category = category, !.n = n]
\* f"  * Attempt {error['attempt']}: {error['issue']}"
AttemptLine(n, issue) ==
    [TextLine("  * Attempt {}: {}") EXCEPT !.n = n, !.issue = issue]
\* f"    - {suggestion}"
SuggestionLine(suggestion) ==
    [TextLine("    - {}") EXCEPT !.suggestion = suggestion]

\* str.upper on the names of the categories
upper(category) ==
    CASE category = "syntax" -> "SYNTAX"
      [] category = "import" -> "IMPORT"
      [] category = "name" -> "NAME"
      [] category = "type" -> "TYPE"
      [] category = "index" -> "INDEX"
      [] category = "key" -> "KEY"
      [] category = "indentation" -> "INDENTATION"
      [] category = "unknown" -> "UNKNOWN"

\* error_patterns is a dict in insertion order: a sequence of categories,
\* each with its list of errors
HasKey(patterns, category) ==
    \E j \in 1..Len(patterns) : patterns[j].category = category

\* error_patterns[category].append(error), after the key was created if new
setdefault_append(patterns, category, error) ==
    IF HasKey(patterns, category)
    THEN [j \in 1..Len(patterns) |->
             IF patterns[j].category = category
             THEN [patterns[j] EXCEPT !.errors = Append(@, error)]
             ELSE patterns[j]]
    ELSE Append(patterns, [category |-> category, errors |-> <<error>>])

\* the loop over enumerate(all_attempts), from index i on
RECURSIVE track_patterns(_, _, _)
track_patterns(all, i, patterns) ==
    IF i > Len(all) THEN patterns
    ELSE IF all[i].success THEN track_patterns(all, i + 1, patterns)
    ELSE LET info == categorize_error(all[i].stderr)
         IN track_patterns(all, i + 1,
                setdefault_append(patterns, info.category,
                    [attempt |-> i, issue |-> info.specific_issue,
                     suggestions |-> info.suggestions]))

\* errors[:2]
last_two_First(errs) ==
    SubSeq(errs, 1, IF Len(errs) > 2 THEN 2 ELSE Len(errs))

\* errors[-2:]
last_two(errs) ==
    SubSeq(errs, IF Len(errs) > 2 THEN Len(errs) - 1 ELSE 1, Len(errs))

\* the lines of one error: the attempt and issue, then each suggestion
error_lines(error) ==
    <<AttemptLine(error.attempt, error.issue)>>
    \o [j \in 1..Len(error.suggestions) |-> SuggestionLine(error.suggestions[j])]

RECURSIVE errors_lines(_)
errors_lines(errs) ==
    IF errs = <<>> THEN <<>>
    ELSE error_lines(Head(errs)) \o errors_lines(Tail(errs))

\* the lines of one category: nothing unless it has more than one error
category_lines(pattern) ==
    IF Len(pattern.errors) > 1
    THEN <<CountLine(upper(pattern.category), Len(pattern.errors))>>
         \o errors_lines(last_two(pattern.errors))
    ELSE <<>>

RECURSIVE patterns_lines(_)
patterns_lines(patterns) ==
    IF patterns = <<>> THEN <<>>
    ELSE category_lines(Head(patterns)) \o patterns_lines(Tail(patterns))

pattern_analysis(patterns) ==
    IF patterns # <<>>
    THEN <<TextLine(""), TextLine("REPEATED ERROR PATTERNS DETECTED:")>>
         \o patterns_lines(patterns)
    ELSE <<>>

Hint(patterns, category, text) ==
    IF HasKey(patterns, category) THEN <<TextLine(text)>> ELSE <<>>

improvement_strategies(patterns) ==
    <<TextLine(""), TextLine("IMPROVEMENT STRATEGIES:")>>
    \o Hint(patterns, "import",
            "- Use only standard library imports (avoid external packages)")
    \o Hint(patterns, "syntax",
            "- Double-check syntax, especially brackets and indentation")
    \o Hint(patterns, "name", "- Ensure all variables are defined before use")
    \o Hint(patterns, "type", "- Add type checking and validation")

Header == <<TextLine(""), TextLine("=== LEARNING FROM PREVIOUS ATTEMPTS ===")>>

\* the function keeping its text between calls and adding to it
build_learning_context_Accumulating(attempts) ==
    IF attempts = <<>> THEN <<>>
    ELSE LET error_patterns == track_patterns(attempts, 1, <<>>)
         IN learning_context \o Header \o pattern_analysis(error_patterns)
            \o improvement_strategies(error_patterns)

build_learning_context(attempts) ==
    IF attempts = <<>> THEN <<>>
    ELSE LET error_patterns == track_patterns(attempts, 1, <<>>)
         IN Header \o pattern_analysis(error_patterns)
            \o improvement_strategies(error_patterns)

(***************************************************************************)
(* CodeExecutor.execute_python_code.  What the operating system and the    *)
(* child process do is an input env of the call:                           *)
(*   tmp     ok | create_fails (NamedTemporaryFile raises, nothing on      *)
(*           disk) | write_fails (f.write or the close of the with block   *)
(*           raises: the file exists, temp_file was never assigned)        *)
(*   child   exit0 | exit1 | timeout | launch_fails                        *)
(*   out, err  what the child wrote to its standard streams (before the    *)
(*           timeout, when it runs into it)                                *)
(*   unlink1, unlink2  what the first and the second call of os.unlink do: *)
(*           ok | gone (FileNotFoundError, the child removed its own       *)
(*           file) | denied (another OSError, the file stays)              *)
(***************************************************************************)
TimeoutMessage == <<Word("code execution timed out (>15 seconds)", TRUE)>>

\* f"Execution error: {str(e)}" for the exception e of each step
ExecutionError(e) ==
    <<Word("execution error:", TRUE),
      CASE e = "create" -> Word("cannot create temporary file", FALSE)
        [] e = "write"  -> Word("cannot write temporary file", FALSE)
        [] e = "launch" -> Word("no such file or directory: 'python'", TRUE)
        [] e = "unlink" -> Word("cannot remove temporary file", FALSE)>>

ChildOut == {"", "out"}
\* Traceback, line 1, NameError: name 'x' is not defined
NameErrorTraceback ==
    <<Word("traceback", TRUE), LineRef(1, FALSE), Word("nameerror", TRUE),
      NotDefined("x", FALSE)>>
ChildErr == {<<>>, NameErrorTraceback}
UnlinkOutcomes == {"ok", "gone", "denied"}

\* Every environment, each written once: a field the call never reads is
\* held at its first value.
SandboxEnvs ==
    { e \in [tmp : {"ok", "create_fails", "write_fails"},
             child : {"exit0", "exit1", "timeout", "launch_fails"},
             out : ChildOut, err : ChildErr,
             unlink1 : UnlinkOutcomes, unlink2 : UnlinkOutcomes] :
        /\ e.tmp # "ok" => e.child = "exit0" /\ e.unlink1 = "ok"
        /\ e.child = "launch_fails" => e.out = "" /\ e.err = <<>>
        /\ (e.unlink1 = "ok" \/ e.child \notin {"exit0", "exit1"}) => e.unlink2 = "ok"
        /\ e.unlink1 = "gone" /\ e.child \in {"exit0", "exit1"} => e.unlink2 = "gone" }

\* The environments the retry loop is explored with: the child exits with
\* status 0, exits with status 1 with and without text on stderr, runs into
\* the timeout after some output, cannot be launched, or removes its own file
\* so that os.unlink raises twice.
RunEnvs ==
    { e \in SandboxEnvs :
        /\ e.tmp = "ok"
        /\ e.child = "exit0" => e.out = "out" /\ e.err = <<>>
        /\ e.child = "timeout" => e.out = "out" /\ e.err = <<>>
        /\ e.child = "exit1" => e.out = ""
        /\ e.unlink1 \in {"ok", "gone"}
        /\ e.unlink1 = "gone" => e.child = "exit0" }

\* a returned three-tuple; remains: the artifact of this call is still on disk
Returned(ok, out, err, rem) ==
    [raised |-> FALSE, success |-> ok, stdout |-> out, stderr |-> err, remains |-> rem]

\* an exception leaves the function
Raised(rem) ==
    [raised |-> TRUE, success |-> FALSE, stdout |-> "", stderr |-> <<>>, remains |-> rem]

\* except subprocess.TimeoutExpired (lines 351-354): temp_file is bound here
TimeoutHandler(u) ==
    IF u = "ok" THEN Returned(FALSE, "", TimeoutMessage, FALSE)
    ELSE Raised(u = "denied")

\* except Exception (lines 355-358), entered with exception e; bound: temp_file
\* is in locals(); exists: the artifact is on disk; u: what os.unlink does
ExceptionHandler(e, bound, exists, u) ==
    IF ~bound THEN Returned(FALSE, "", ExecutionError(e), exists)
    ELSE IF u = "ok" THEN Returned(FALSE, "", ExecutionError(e), FALSE)
    ELSE Raised(u = "denied")

execute_python_code(code, env) ==
    CASE env.tmp = "create_fails" -> ExceptionHandler("create", FALSE, FALSE, "ok")
      [] env.tmp = "write_fails" -> ExceptionHandler("write", FALSE, TRUE, "ok")
      [] env.tmp = "ok" /\ env.child = "launch_fails" ->
            ExceptionHandler("launch", TRUE, TRUE, env.unlink1)
      [] env.tmp = "ok" /\ env.child = "timeout" -> TimeoutHandler(env.unlink1)
      [] env.tmp = "ok" /\ env.child \in {"exit0", "exit1"} ->
            IF env.unlink1 = "ok"
            THEN Returned(env.child = "exit0", env.out, env.err, FALSE)
            ELSE ExceptionHandler("unlink", TRUE, TRUE, env.unlink2)

\* the state before any call of the runner
NoCall == [called |-> FALSE, raised |-> FALSE, success |-> FALSE, remains |-> FALSE,
           stdout |-> "", stderr |-> <<>>, timed_out |-> FALSE,
           partial |-> FALSE]

(***************************************************************************)
(* Lists of the session state, as heap objects.                            *)
(***************************************************************************)
\* a new empty list: the heap with it, its reference is Len of the result
NewList(h) == Append(h, <<>>)

\* list.copy(): a new list with the same elements
ListCopy(h, ref) == Append(h, h[ref])

\* list.append(x), in place
ListAppend(h, ref, x) == [h EXCEPT ![ref] = Append(@, x)]

(***************************************************************************)
(* execute_recursive_ai.                                                   *)
(***************************************************************************)
(***************************************************************************)
(* MistralAIClient._build_system_prompt: the strategy of the system prompt *)
(* is named by the line that tells the three prompts apart.                *)
(***************************************************************************)
Baseline == "Generate clean, working Python code based on the user's request."
DebuggingMode == "You are now in DEBUGGING MODE. Previous attempts have failed."
ExpertRecoveryMode == "You are now in EXPERT RECOVERY MODE. Multiple attempts have failed."

\* the second strategy ending one attempt early
_build_system_prompt_EarlyRecovery(attempt_number, previous_attempts) ==
    IF attempt_number = 1 THEN Baseline
    ELSE IF attempt_number <= 2 THEN DebuggingMode
    ELSE ExpertRecoveryMode

_build_system_prompt(attempt_number, previous_attempts) ==
    IF attempt_number = 1 THEN Baseline
    ELSE IF attempt_number <= 3 THEN DebuggingMode
    ELSE ExpertRecoveryMode

(***************************************************************************)
(* MistralAIClient._build_user_prompt: the user prompt is a sequence of    *)
(* lines, as the text of build_learning_context is.                        *)
(***************************************************************************)
\* f"Original Task: {original_prompt}"
TaskLine(original_prompt) == TextLine("Original Task: " \o original_prompt)
\* f"=== ATTEMPT {attempt_number} FOCUS ==="
FocusLine(attempt_number) ==
    [TextLine("=== ATTEMPT {} FOCUS ===") EXCEPT !.n = attempt_number]
\* f"Last error category: {error_info['category']}"
CategoryLine(category) ==
    [TextLine("Last error category: {}") EXCEPT !.category = category]
\* f"Specific issue: {error_info['specific_issue']}"
IssueLine(issue) == [TextLine("Specific issue: {}") EXCEPT !.issue = issue]
\* f"- {suggestion}"
FixLine(suggestion) == [TextLine("- {}") EXCEPT !.suggestion = suggestion]
\* f"Generate working Python code for attempt {attempt_number}. " and the
\* sentence after it
GenerateLine(attempt_number) ==
    [TextLine("Generate working Python code for attempt {}. Focus on CORRECTNESS over elegance.")
        EXCEPT !.n = attempt_number]

\* lines 291-296: category, issue and suggestions of an error_info
failure_analysis(info) ==
    <<CategoryLine(info.category), IssueLine(info.specific_issue),
      TextLine("Suggestions to fix:")>>
    \o [j \in 1..Len(info.suggestions) |-> FixLine(info.suggestions[j])]

\* lines 299-303
MultipleFailures ==
    <<TextLine("CRITICAL: Multiple failures detected. Consider:"),
      TextLine("- Completely different approach"),
      TextLine("- Simpler algorithm"),
      TextLine("- More basic implementation"),
      TextLine("- Extensive error handling")>>

\* the focus that analyses the latest attempt whether it wrote to stderr or not
attempt_focus_AlwaysAnalyses(attempt_number, previous_attempts) ==
    IF attempt_number <= 3
    THEN failure_analysis(
             categorize_error(previous_attempts[Len(previous_attempts)].stderr))
    ELSE MultipleFailures

\* lines 287-303: what follows the focus line
attempt_focus(attempt_number, previous_attempts) ==
    IF attempt_number <= 3
    THEN LET recent_attempt == previous_attempts[Len(previous_attempts)]
         IN IF recent_attempt.stderr # <<>>
            THEN failure_analysis(categorize_error(recent_attempt.stderr))
            ELSE <<>>
    ELSE MultipleFailures

_build_user_prompt(original_prompt, attempt_number, previous_attempts) ==
    <<TaskLine(original_prompt)>>
    \o (IF previous_attempts # <<>>
        THEN build_learning_context(previous_attempts)
             \o <<TextLine(""), FocusLine(attempt_number)>>
             \o attempt_focus(attempt_number, previous_attempts)
        ELSE <<>>)
    \o <<TextLine(""), GenerateLine(attempt_number)>>

\* what generate_code is called with (lines 552-556) and the two prompts of
\* the payload it builds (lines 187-200)
Request(original_prompt, attempt_number, previous_attempts) ==
    [attempt_number |-> attempt_number, previous_attempts |-> previous_attempts,
     system_prompt |-> _build_system_prompt(attempt_number, previous_attempts),
     user_prompt |-> _build_user_prompt(original_prompt, attempt_number,
                                        previous_attempts)]
\* no call of generate_code yet
NoRequest ==
    [attempt_number |-> 0, previous_attempts |-> <<>>, system_prompt |-> "",
     user_prompt |-> <<>>]

Idle == pc \in {"idle", "returned", "raised"}

\* lines 544-549
GeneratingStatus(i) ==
    IF i = 0 THEN "Initial attempt: Generating code..."
    ELSE IF i = 1 THEN "Learning from failure: Analyzing and improving..."
    ELSE "Advanced retry: Applying accumulated knowledge..."

\* line 559
GenerationFailed == "Failed to generate code from AI"

\* the st.error calls of generate_code (lines 214-219)
ClientErrors(resp) ==
    IF resp.kind = "request_exception" THEN {"API Error"}
    ELSE IF resp.kind = "malformed" THEN {"Unexpected error"}
    ELSE {}

\* a continue in place of the break of line 560
OnNoCode_Continue(i, m) == IF i + 1 < m THEN "generate" ELSE "finalize"

\* lines 558-560: where the loop of m attempts goes when generate_code gave
\* nothing usable at attempt index i: the break leaves the loop
OnNoCode(i, m) == "finalize"

\* the loop without the break of line 588
AfterAttempt_NoBreak(ok, i, m) == IF i + 1 < m THEN "generate" ELSE "finalize"

\* the loop running one attempt too many
AfterAttempt_OffByOne(ok, i, m) ==
    IF ok THEN "finalize"
    ELSE IF i + 1 <= m THEN "generate"
    ELSE "finalize"

\* lines 586-588 and the loop header 538: where the loop goes after attempt
\* index i of m ended with ok
\* the loop giving up on the first failed attempt
AfterAttempt_FailureIsFatal(ok, i, m) == "finalize"

AfterAttempt(ok, i, m) ==
    IF ok THEN "finalize"
    ELSE IF i + 1 < m THEN "generate"
    ELSE "finalize"

\* lines 573-581 (the timestamp and the error analysis are left out)
AttemptRecord(i, r, code) ==
    [attempt |-> i + 1, success |-> r.success, stdout |-> r.stdout,
     stderr |-> r.stderr, code |-> code]

\* lines 601-604
Completed == "Execution completed successfully!"
Exhausted == "All retry attempts exhausted"

FinalStatus(ok) == IF ok THEN Completed ELSE Exhausted

\* lines 607-615; logs is the reference of the copied list
HistoryEntry(p, code, cur, ok, logs, all) ==
    [prompt |-> p, generated_code |-> code, attempts |-> cur, success |-> ok,
     logs |-> logs, learning_applied |-> Len(all) > 1]

\* the entry put in front, the order the history is displayed in (line 504)
HistoryAppend_Front(hist, entry) == <<entry>> \o hist

\* line 617
HistoryAppend(hist, entry) == Append(hist, entry)

\* the session state and the locals of the script before the first run
SessionInit ==
    /\ execution_history = <<>>
    /\ current_attempt = 0
    /\ generated_code = <<>>
    /\ heap = NewList(<<>>)
    /\ execution_logs = 1
    /\ is_running = FALSE
    /\ pc = "idle"
    /\ prompt = "task"
    /\ max_attempts = 1
    /\ attempt = 0
    /\ all_attempts = <<>>
    /\ success = FALSE
    /\ status_text = ""
    /\ errors = {}
    /\ disk = {}
    /\ last_call = NoCall
    /\ gen_calls = 0
    /\ sandbox_calls = 0
    /\ runs = 0
    /\ budget = 0
    /\ clears = 0
    /\ tmp_seq = 0
    /\ gen_request = NoRequest

\* ErrorAnalyzer's functions have not been exercised on their own
NotExercised ==
    /\ stderr_in = <<>>
    /\ error_info = error_info_default
    /\ classified = FALSE
    /\ history_in = <<>>
    /\ learning_context = <<>>
    /\ build_calls = 0

Init == SessionInit /\ NotExercised

\* What one call of execute_python_code with result r leaves behind: the
\* artifact gets a fresh name (tmp_seq) and is on disk afterwards iff it remains.
\* last_call also keeps whether the child ran into the timeout (timed_out)
\* and whether it had written to its standard streams (partial).
SandboxEffect(env, r) ==
    /\ sandbox_calls' = sandbox_calls + 1
    /\ tmp_seq' = IF env.tmp = "create_fails" THEN tmp_seq ELSE tmp_seq + 1
    /\ disk' = IF r.remains THEN disk \cup {tmp_seq'} ELSE disk
    /\ last_call' = [called |-> TRUE, raised |-> r.raised, success |-> r.success,
                     remains |-> r.remains, stdout |-> r.stdout, stderr |-> r.stderr,
                     timed_out |-> env.tmp = "ok" /\ env.child = "timeout",
                     partial |-> env.out # "" \/ env.err # <<>>]

\* lines 424-426 and 519-536: the run button, enabled while no run is going on
execute_recursive_ai(p, m) ==
    /\ Idle
    /\ ~is_running
    /\ budget' = budget + m
    /\ runs' = runs + 1
    /\ is_running' = TRUE
    /\ current_attempt' = 0
    /\ heap' = NewList(heap)
    /\ execution_logs' = Len(heap')
    /\ prompt' = p
    /\ max_attempts' = m
    /\ attempt' = 0
    /\ all_attempts' = <<>>
    /\ success' = FALSE
    /\ status_text' = ""
    /\ errors' = {}
    /\ gen_calls' = 0
    /\ sandbox_calls' = 0
    /\ last_call' = NoCall
    /\ gen_request' = NoRequest
    /\ pc' = "generate"
    /\ UNCHANGED <<execution_history, generated_code, disk, clears, tmp_seq>>
    /\ UNCHANGED pureVars

\* a run of a session whose runs ask for MaxBudget attempts in total
StartRun(p, m) ==
    /\ budget + m <= MaxBudget
    /\ execute_recursive_ai(p, m)

\* lines 538-564: the head of one loop iteration up to the generated code
GenerateStep(resp) ==
    /\ pc = "generate"
    /\ current_attempt' = attempt + 1
    /\ gen_calls' = gen_calls + 1
    /\ gen_request' = Request(prompt, attempt + 1, all_attempts)
    /\ LET g == generate_code(resp)
       IN IF NotCode(g)
          THEN /\ errors' = errors \cup ClientErrors(resp) \cup {GenerationFailed}
               /\ status_text' = GeneratingStatus(attempt)
               /\ pc' = OnNoCode(attempt, max_attempts)
               /\ attempt' = IF pc' = "generate" THEN attempt + 1 ELSE attempt
               /\ UNCHANGED generated_code
          ELSE /\ errors' = errors \cup ClientErrors(resp)
               /\ generated_code' = g.text
               /\ status_text' = "Executing code"
               /\ pc' = "execute"
               /\ UNCHANGED attempt
    /\ UNCHANGED <<execution_history, execution_logs, is_running, heap, prompt,
                   max_attempts, all_attempts, success, disk, last_call,
                   sandbox_calls, runs, budget, clears, tmp_seq>>
    /\ UNCHANGED pureVars

\* lines 567-595: the sandbox run, the record and the decision; an exception
\* leaving the runner is caught at lines 619-623
ExecuteStep(env) ==
    /\ pc = "execute"
    /\ LET r == execute_python_code(generated_code, env)
           rec == AttemptRecord(attempt, r, generated_code)
       IN /\ SandboxEffect(env, r)
          /\ IF r.raised
             THEN /\ is_running' = FALSE
                  /\ errors' = errors \cup {"Execution Error"}
                  /\ pc' = "raised"
                  /\ UNCHANGED <<heap, all_attempts, success, attempt, status_text>>
             ELSE /\ all_attempts' = Append(all_attempts, rec)
                  /\ heap' = ListAppend(heap, execution_logs, rec)
                  /\ success' = r.success
                  /\ pc' = AfterAttempt(r.success, attempt, max_attempts)
                  /\ attempt' = IF pc' = "generate" THEN attempt + 1 ELSE attempt
                  /\ status_text' = IF r.success THEN "Code Execution succeeded"
                                    ELSE "Learning from attempt failure"
                  /\ UNCHANGED <<is_running, errors>>
    /\ UNCHANGED <<execution_history, current_attempt, generated_code,
                   execution_logs, prompt, max_attempts, gen_calls, runs, budget,
                   clears>>
    /\ UNCHANGED <<pureVars, gen_request>>

\* lines 597-617
Finalize ==
    /\ pc = "finalize"
    /\ is_running' = FALSE
    /\ status_text' = FinalStatus(success)
    /\ heap' = ListCopy(heap, execution_logs)
    /\ execution_history' =
          HistoryAppend(execution_history,
                        HistoryEntry(prompt, generated_code, current_attempt,
                                     success, Len(heap'), all_attempts))
    /\ pc' = "returned"
    /\ UNCHANGED <<current_attempt, generated_code, execution_logs, prompt,
                   max_attempts, attempt, all_attempts, success, errors, disk,
                   last_call, gen_calls, sandbox_calls, runs, budget, clears,
                   tmp_seq>>
    /\ UNCHANGED <<pureVars, gen_request>>

\* lines 392-402: the Clear History button
ClearHistory ==
    /\ Idle
    /\ clears < MaxClears
    /\ clears' = clears + 1
    /\ execution_history' = <<>>
    /\ current_attempt' = 0
    /\ generated_code' = <<>>
    /\ heap' = NewList(heap)
    /\ execution_logs' = Len(heap')
    /\ UNCHANGED <<is_running, pc, prompt, max_attempts, attempt, all_attempts,
                   success, status_text, errors, disk, last_call, gen_calls,
                   sandbox_calls, runs, budget, tmp_seq>>
    /\ UNCHANGED <<pureVars, gen_request>>

Next ==
    \/ \E p \in Prompts, m \in 1..MaxAttemptsBound : StartRun(p, m)
    \/ \E resp \in Responses : GenerateStep(resp)
    \/ \E env \in RunEnvs : ExecuteStep(env)
    \/ Finalize
    \/ ClearHistory

Spec == Init /\ [][Next]_vars

(***************************************************************************)
(* One run on its own, with more attempts than a session of Spec has: the  *)
(* first run of a session, started with any max_attempts up to             *)
(* MaxLongAttempts.                                                        *)
(***************************************************************************)
\* the largest max_attempts of the run
MaxLongAttempts == 4

StartLongRun(p, m) ==
    /\ runs = 0
    /\ execute_recursive_ai(p, m)

NextLongRun ==
    \/ \E p \in Prompts, m \in 1..MaxLongAttempts : StartLongRun(p, m)
    \/ \E resp \in Responses : GenerateStep(resp)
    \/ \E env \in RunEnvs : ExecuteStep(env)
    \/ Finalize

SpecLongRun == Init /\ [][NextLongRun]_vars

(***************************************************************************)
(* The sandbox runner on its own: execute_python_code called again and     *)
(* again, each time with any program text and any environment.             *)
(***************************************************************************)
ProgramTexts == { generate_code(resp).text : resp \in Responses } \ {<<>>}

RunnerCall(code, env) ==
    /\ pc = "idle"
    /\ sandbox_calls < MaxCalls
    /\ SandboxEffect(env, execute_python_code(code, env))
    /\ UNCHANGED <<execution_history, current_attempt, generated_code,
                   execution_logs, is_running, heap, pc, prompt, max_attempts,
                   attempt, all_attempts, success, status_text, errors, gen_calls,
                   runs, budget, clears>>
    /\ UNCHANGED <<pureVars, gen_request>>

NextRunner == \E code \in ProgramTexts, env \in SandboxEnvs : RunnerCall(code, env)

SpecRunner == Init /\ [][NextRunner]_vars

(***************************************************************************)
(* ErrorAnalyzer.categorize_error on its own: one call on a text.          *)
(***************************************************************************)
InitClassify ==
    /\ SessionInit
    /\ \E l \in 0..MaxTextLen : stderr_in \in Texts(l)
    /\ error_info = error_info_default
    /\ classified = FALSE
    /\ history_in = <<>>
    /\ learning_context = <<>>
    /\ build_calls = 0

ClassifyCall ==
    /\ ~classified
    /\ error_info' = categorize_error(stderr_in)
    /\ classified' = TRUE
    /\ UNCHANGED <<sessionVars, stderr_in, history_in, learning_context,
                   build_calls>>

NextClassify == ClassifyCall

SpecClassify == InitClassify /\ [][NextClassify]_vars

(***************************************************************************)
(* ErrorAnalyzer.build_learning_context on its own: calls, one after the   *)
(* other, on one list of attempt records.  The function takes any list:    *)
(* records of failed and of successful attempts, the latter written to     *)
(* stderr or not.                                                          *)
(***************************************************************************)
\* the longest list of attempts the function is exercised on
MaxHistoryLen == 4
\* the calls made on one list
MaxBuildCalls == 2

\* stderr of the records: empty, a NameError with and without the undefined
\* name, and a SyntaxError with its sub-case
BuildTexts ==
    {<<>>, NameErrorTraceback, <<Word("nameerror", TRUE)>>,
     <<Word("syntaxerror", TRUE), Word("invalid syntax", FALSE)>>}

\* the lists of l records, the record of attempt i at position i
Histories(l) ==
    {[i \in 1..l |->
         AttemptRecord(i - 1, Returned(f[i].ok, "", f[i].err, FALSE),
                       <<"print(1)">>)] :
       f \in [1..l -> [ok : BOOLEAN, err : BuildTexts]]}

InitBuild ==
    /\ SessionInit
    /\ stderr_in = <<>>
    /\ error_info = error_info_default
    /\ classified = FALSE
    /\ \E l \in 0..MaxHistoryLen : history_in \in Histories(l)
    /\ learning_context = <<>>
    /\ build_calls = 0

BuildCall ==
    /\ build_calls < MaxBuildCalls
    /\ learning_context' = build_learning_context(history_in)
    /\ build_calls' = build_calls + 1
    /\ UNCHANGED <<sessionVars, stderr_in, error_info, classified, history_in>>

NextBuild == BuildCall

SpecBuild == InitBuild /\ [][NextBuild]_vars

(***************************************************************************)
(* Properties.                                                             *)
(***************************************************************************)
\* the records of the live log list, of a history entry, and the last element
LiveLogs == heap[execution_logs]
Logs(e) == heap[e.logs]
Last(q) == q[Len(q)]

HasSuccess(recs) == \E i \in 1..Len(recs) : recs[i].success
AllFailed(recs) == \A i \in 1..Len(recs) : ~recs[i].success
OnlyLastSucceeds(recs) == \A i \in 1..Len(recs) : recs[i].success => i = Len(recs)

\* a step of the current run (not the start of another run, not a click on
\* Clear History)
SameRun == runs' = runs /\ clears' = clears

\* C1: after any call of execute_python_code, whatever its exit path, no
\* temporary file the call created is left on disk.
C1_NoArtifactRemains == last_call.called => (~last_call.remains /\ disk = {})

\* C2: execute_python_code never lets an exception reach its caller; every
\* failure comes back as a three-tuple with succeeded = false and a text in
\* stderr.
C2_NeverPropagates == last_call.called => ~last_call.raised

\* C3: success is terminal at once.  Only the last record of a run can be a
\* success; once a record succeeded the loop has left for the finalisation,
\* no further generate_code or execute_python_code call is made in that run,
\* and the run ends reported as completed with a history entry that succeeded.
C3_SuccessIsTerminal ==
    /\ [](/\ OnlyLastSucceeds(all_attempts)
          /\ OnlyLastSucceeds(LiveLogs)
          /\ \A i \in 1..Len(execution_history) :
                OnlyLastSucceeds(Logs(execution_history[i])))
    /\ [](HasSuccess(all_attempts) => pc \in {"finalize", "returned"})
    /\ [][HasSuccess(all_attempts) /\ SameRun =>
            (UNCHANGED <<gen_calls, sandbox_calls, all_attempts, LiveLogs>>)]_vars
    /\ [][pc = "finalize" /\ HasSuccess(all_attempts) =>
            /\ pc' = "returned"
            /\ status_text' = Completed
            /\ Len(execution_history') = Len(execution_history) + 1
            /\ Last(execution_history').success]_vars

\* a run that succeeded with attempts left in its budget
C3_Witness ==
    /\ pc = "returned"
    /\ HasSuccess(all_attempts)
    /\ Len(all_attempts) < max_attempts
    /\ Len(all_attempts) > 1

\* C4: when generate_code gives nothing usable at attempt n, the run stops at
\* once: the loop leaves for the finalisation, no sandbox run is made and no
\* record is appended for attempt n, and no further generate_code call is made
\* in that run.
C4_GenerationFailureStops ==
    /\ [][\A resp \in Responses :
            (GenerateStep(resp) /\ NotCode(generate_code(resp))) =>
               /\ pc' = "finalize"
               /\ GenerationFailed \in errors'
               /\ (UNCHANGED <<all_attempts, heap, sandbox_calls, disk>>)]_vars
    /\ [](GenerationFailed \in errors =>
            /\ pc \in {"finalize", "returned"}
            /\ gen_calls = Len(all_attempts) + 1
            /\ sandbox_calls = Len(all_attempts))
    /\ [][(GenerationFailed \in errors) /\ SameRun =>
            (UNCHANGED <<gen_calls, sandbox_calls, all_attempts, LiveLogs>>)]_vars

\* a run stopped by a generation failure at its second attempt, with a third
\* attempt left in its budget
C4_Witness ==
    /\ pc = "returned"
    /\ GenerationFailed \in errors
    /\ Len(all_attempts) = 1
    /\ current_attempt = 2
    /\ max_attempts = 3

\* C5: in every history entry the attempts field equals the number of
\* attempt records of that run.
C5_AttemptsCountsRecords ==
    \A i \in 1..Len(execution_history) :
        execution_history[i].attempts = Len(Logs(execution_history[i]))

\* C6: a run never makes an attempt numbered above max_attempts, and a run
\* whose max_attempts attempts all generated code and failed leaves the loop
\* and ends reported as exhausted, with a history entry that has attempts =
\* max_attempts, success = false and exactly max_attempts records.
C6_ExhaustedAfterMaxAttempts ==
    /\ [](/\ current_attempt <= max_attempts
          /\ gen_calls <= max_attempts
          /\ sandbox_calls <= max_attempts
          /\ Len(all_attempts) <= max_attempts
          /\ \A i \in 1..Len(all_attempts) : all_attempts[i].attempt <= max_attempts)
    /\ [](Len(all_attempts) = max_attempts /\ AllFailed(all_attempts) =>
            pc \in {"finalize", "returned"})
    /\ [][pc = "finalize" /\ Len(all_attempts) = max_attempts
                          /\ AllFailed(all_attempts) =>
            /\ pc' = "returned"
            /\ status_text' = Exhausted
            /\ Len(execution_history') = Len(execution_history) + 1
            /\ Last(execution_history').attempts = max_attempts
            /\ ~Last(execution_history').success
            /\ Len(heap'[Last(execution_history').logs]) = max_attempts
            /\ AllFailed(heap'[Last(execution_history').logs])]_vars

\* a run of several attempts that all failed
C6_Witness ==
    /\ pc = "returned"
    /\ max_attempts > 1
    /\ Len(all_attempts) = max_attempts
    /\ AllFailed(all_attempts)
    /\ status_text = Exhausted

\* C7: the report that all retry attempts are exhausted is given only to a
\* run that executed max_attempts attempts which all failed, never to a run
\* stopped by a generation failure.
C7_ExhaustedOnlyAfterMaxFailures ==
    (pc = "returned" /\ status_text = Exhausted) =>
        (/\ Len(all_attempts) = max_attempts
         /\ AllFailed(all_attempts)
         /\ GenerationFailed \notin errors)

\* C8: in every history entry generated_code is the code of the last attempt
\* record of that same run; an entry of a run without any attempt holds no
\* program text of an earlier run.
C8_FinalCodeIsLastAttempts ==
    \A i \in 1..Len(execution_history) :
        LET e == execution_history[i]
        IN e.generated_code =
              IF Logs(e) = <<>> THEN <<>> ELSE Last(Logs(e)).code

\* C9: in every history entry learning_applied is true iff the attempts field
\* is greater than 1.
C9_LearningAppliedIffSeveralAttempts ==
    \A i \in 1..Len(execution_history) :
        execution_history[i].learning_applied <=> execution_history[i].attempts > 1

\* C10: the records of a completed history entry are frozen.  No step changes
\* the list a history entry refers to, and any step but a click on Clear
\* History (which empties the history itself) leaves every entry in its place
\* with the same records.
C10_HistoryRecordsFrozen ==
    [][\A i \in 1..Len(execution_history) :
          /\ heap'[execution_history[i].logs] = heap[execution_history[i].logs]
          /\ clears' = clears =>
                /\ i <= Len(execution_history')
                /\ heap'[execution_history'[i].logs] = heap[execution_history[i].logs]]_vars

\* a later run has appended to the live log list while an earlier entry with
\* other records is in the history
C10_Witness ==
    /\ Len(execution_history) >= 1
    /\ runs >= 2
    /\ pc \in {"generate", "finalize"}
    /\ Len(LiveLogs) >= 1
    /\ Len(Logs(execution_history[1])) >= 1
    /\ LiveLogs # Logs(execution_history[1])
    /\ execution_logs # execution_history[1].logs


(***************************************************************************)
(* Properties of categorize_error, stated on the text itself.              *)
(***************************************************************************)
\* the categories in the order the claims list them, and the words of each
SignatureOrder ==
    <<"syntax", "import", "name", "type", "index", "key", "indentation">>
Triggers(c) ==
    CASE c = "syntax" -> {"syntaxerror"}
      [] c = "import" -> {"modulenotfounderror", "importerror"}
      [] c = "name" -> {"nameerror"}
      [] c = "type" -> {"typeerror"}
      [] c = "index" -> {"indexerror"}
      [] c = "key" -> {"keyerror"}
      [] c = "indentation" -> {"indentationerror"}
\* the word occurs in the text, in whatever case
Occurs(word, text) ==
    \E i \in 1..Len(text) : text[i].k = "word" /\ text[i].w = word
\* the positions in SignatureOrder of the signatures the text matches
Recognized(text) ==
    {j \in 1..Len(SignatureOrder) :
        \E w \in Triggers(SignatureOrder[j]) : Occurs(w, text)}
\* the positions of the phrase of a kind, in whatever case
Phrases(kind, text) == {i \in 1..Len(text) : text[i].k = kind}
\* the name a phrase carries, as spelled and in lower case
Spelled(c) == Name(c.w, c.ncaps)
Lowered(c) == Name(c.w, FALSE)
IsMember(x, q) == \E i \in 1..Len(q) : q[i] = x

\* C12: the category is that of the earliest signature, in the order syntax,
\* import, name, type, index, key, indentation, whose word occurs in the text
\* in whatever case, and unknown when none occurs.
C12_FirstMatchInFixedOrder ==
    classified =>
        error_info.category =
            IF Recognized(stderr_in) = {} THEN "unknown"
            ELSE SignatureOrder[CHOOSE j \in Recognized(stderr_in) :
                                    \A l \in Recognized(stderr_in) : j <= l]
\* a text matching import and a later signature was classified as import
C12_Witness ==
    /\ classified
    /\ Recognized(stderr_in) = {2, 3}
    /\ stderr_in[1].w = "nameerror"
    /\ error_info.category = "import"

\* C13 as stated: unknown iff no signature matched, and then specific_issue,
\* line_number, missing_imports and suggestions are all at their defaults.
C13_UnknownLeavesAllDefaults ==
    classified =>
        /\ (error_info.category = "unknown") <=> (Recognized(stderr_in) = {})
        /\ error_info.category = "unknown" =>
               /\ error_info.specific_issue = NoIssue
               /\ error_info.line_number = None
               /\ error_info.missing_imports = <<>>
               /\ error_info.suggestions = <<>>
\* C13 amended: unknown iff no signature matched, and then specific_issue,
\* missing_imports and suggestions are at their defaults, while line_number
\* is None exactly when the text has no line <n>.
C13_UnknownLeavesDefaultsButLine ==
    classified =>
        /\ (error_info.category = "unknown") <=> (Recognized(stderr_in) = {})
        /\ error_info.category = "unknown" =>
               /\ error_info.specific_issue = NoIssue
               /\ error_info.missing_imports = <<>>
               /\ error_info.suggestions = <<>>
               /\ (error_info.line_number = None)
                      <=> (Matches("line", stderr_in) = {})
\* a text without signature but with a line reference was classified
C13_Witness ==
    /\ classified
    /\ error_info.category = "unknown"
    /\ error_info.line_number = 2
    /\ Len(stderr_in) = 2

\* C14 as stated: a text with the phrase no module named 'X' is classified
\* as import with X among missing_imports.
C14_NoModuleIsImport ==
    classified =>
        \A i \in Phrases("nomodule", stderr_in) :
            /\ error_info.category = "import"
            /\ IsMember(Spelled(stderr_in[i]), error_info.missing_imports)
\* C14 amended: a text that has modulenotfounderror or importerror and not
\* syntaxerror (in whatever case) and the phrase no module named 'X' is
\* classified as import, and missing_imports holds exactly the name of the
\* first such phrase, in lower case.
C14_NoModuleOfImportError ==
    classified /\ 2 \in Recognized(stderr_in) /\ 1 \notin Recognized(stderr_in)
               /\ Phrases("nomodule", stderr_in) # {} =>
        LET first == CHOOSE i \in Phrases("nomodule", stderr_in) :
                         \A j \in Phrases("nomodule", stderr_in) : i <= j
        IN /\ error_info.category = "import"
           /\ error_info.missing_imports = <<Lowered(stderr_in[first])>>
\* ModuleNotFoundError: No module named 'PIL' followed by another missing
\* module was classified
C14_Witness ==
    /\ classified
    /\ Len(stderr_in) = 3
    /\ stderr_in[1] = Word("modulenotfounderror", TRUE)
    /\ stderr_in[2] = NoModule("pil", TRUE, TRUE)
    /\ stderr_in[3] = NoModule("os", FALSE, TRUE)
    /\ error_info.missing_imports = <<Name("pil", FALSE)>>

\* C15 as stated: a text that contains line N has line_number = N.
C15_LineNumberOfEveryLine ==
    classified =>
        \A i \in Matches("line", stderr_in) :
            error_info.line_number = stderr_in[i].n
\* C15 amended: a text that contains line N has line_number = N for the
\* first such N of the text, whichever category it is given.
C15_LineNumberOfFirstLine ==
    classified /\ Matches("line", stderr_in) # {} =>
        LET first == CHOOSE i \in Matches("line", stderr_in) :
                         \A j \in Matches("line", stderr_in) : i <= j
        IN error_info.line_number = stderr_in[first].n
\* a text with a signature and two different line references was classified
C15_Witness ==
    /\ classified
    /\ Len(stderr_in) = 3
    /\ stderr_in[1] = LineRef(1, FALSE)
    /\ stderr_in[2] = LineRef(2, FALSE)
    /\ error_info.category = "key"
    /\ error_info.line_number = 1

\* C16: a text without any signature word, the empty text included, is
\* classified as unknown with no suggestion, no missing import and no
\* specific issue.
C16_NoSignatureIsBareUnknown ==
    classified /\ Recognized(stderr_in) = {} =>
        /\ error_info.category = "unknown"
        /\ error_info.suggestions = <<>>
        /\ error_info.missing_imports = <<>>
        /\ error_info.specific_issue = NoIssue
\* a text with the phrases of sub-cases but no signature word was classified
C16_Witness ==
    /\ classified
    /\ Recognized(stderr_in) = {}
    /\ Len(stderr_in) = 3
    /\ stderr_in[1] = Word("invalid syntax", FALSE)
    /\ stderr_in[2] = NoModule("os", FALSE, TRUE)
    /\ stderr_in[3] = NotDefined("x", FALSE)


(***************************************************************************)
(* Properties of build_learning_context, stated on the list of attempts.   *)
(***************************************************************************)
Categories ==
    {"syntax", "import", "name", "type", "index", "key", "indentation",
     "unknown"}
\* the failed attempts of history_in that are classified under category c
Failures(c) ==
    {i \in 1..Len(history_in) :
        /\ ~history_in[i].success
        /\ categorize_error(history_in[i].stderr).category = c}
Repeated == {c \in Categories : Cardinality(Failures(c)) > 1}
\* the greatest member of a set of numbers
Greatest(S) == CHOOSE i \in S : \A j \in S : j <= i
\* the lines that give the details of attempt i: its issue and suggestions
Details(i) ==
    LET info == categorize_error(history_in[i].stderr)
    IN <<AttemptLine(i, info.specific_issue)>>
       \o [j \in 1..Len(info.suggestions) |-> SuggestionLine(info.suggestions[j])]
\* the block expected for a category with more than one failure
ExpectedBlock(c) ==
    LET b == Greatest(Failures(c))
        a == Greatest(Failures(c) \ {b})
    IN <<CountLine(upper(c), Cardinality(Failures(c)))>> \o Details(a) \o Details(b)
IsCountLine(line) == line.text = CountLine("", 0).text
IsAttemptLine(line) == line.text = AttemptLine(0, NoIssue).text
IsSuggestionLine(line) == line.text = SuggestionLine(Suggestion("", NoName)).text
CountLinesOf(c) ==
    {p \in 1..Len(learning_context) :
        IsCountLine(learning_context[p]) /\ learning_context[p].category = upper(c)}
AttemptLines ==
    {p \in 1..Len(learning_context) : IsAttemptLine(learning_context[p])}

\* C17: in the text built from a list of attempts, every category with k > 1
\* failed attempts has one block that states the count k and then the issue
\* and suggestions of its last two failures and of no other attempt; a
\* category with at most one failure has no block; no line refers to a
\* successful attempt.
C17_RepeatedPatternBlocks ==
    build_calls >= 1 =>
        /\ \A c \in Categories :
              IF c \in Repeated
              THEN /\ Cardinality(CountLinesOf(c)) = 1
                   /\ \A p \in CountLinesOf(c) :
                         LET e == ExpectedBlock(c)
                             q == p + Len(e)
                         IN /\ q - 1 <= Len(learning_context)
                            /\ SubSeq(learning_context, p, q - 1) = e
                            /\ ~IsAttemptLine(learning_context[q])
                            /\ ~IsSuggestionLine(learning_context[q])
              ELSE CountLinesOf(c) = {}
        /\ Cardinality(AttemptLines) = 2 * Cardinality(Repeated)
        /\ \A p \in AttemptLines :
              ~history_in[learning_context[p].n].success
\* the text was built from four attempts: NameError on 1, 2 and 4 and a
\* successful attempt 3
C17_Witness ==
    /\ build_calls >= 1
    /\ Failures("name") = {1, 2, 4}
    /\ Len(history_in) = 4
    /\ history_in[3].success
    /\ history_in[3].stderr = NameErrorTraceback
    /\ history_in[1].stderr # history_in[2].stderr
    /\ CountLinesOf("name") # {}

StrategyOf(n) ==
    IF n = 1 THEN Baseline
    ELSE IF n \in {2, 3} THEN DebuggingMode
    ELSE ExpertRecoveryMode
IsNameError(rec) ==
    ~rec.success /\ categorize_error(rec.stderr).category = "name"
\* a finished run started with max_attempts = 3 that failed with a NameError
\* on attempts 1 and 2 and succeeded on attempt 3
NameErrorTwiceThenSuccess ==
    /\ pc = "returned"
    /\ max_attempts = 3
    /\ Len(all_attempts) = 3
    /\ IsNameError(all_attempts[1])
    /\ IsNameError(all_attempts[2])
    /\ all_attempts[3].success

\* C11: the strategy of every request is the one of its attempt number alone
\* (1 baseline, 2 and 3 debugging, above 3 recovery); a run with
\* max_attempts = 3 that fails with a NameError on attempts 1 and 2 and
\* succeeds on attempt 3 ends as succeeded with attempts = 3, its third
\* request having been made with the debugging strategy.
C11_StrategyByAttemptNumber ==
    /\ gen_request # NoRequest =>
          gen_request.system_prompt = StrategyOf(gen_request.attempt_number)
    /\ NameErrorTwiceThenSuccess =>
          /\ status_text = Completed
          /\ Last(execution_history).success
          /\ Last(execution_history).attempts = 3
          /\ gen_request.attempt_number = 3
          /\ gen_request.system_prompt = DebuggingMode
\* the run of the claim has finished
C11_Witness ==
    /\ NameErrorTwiceThenSuccess
    /\ gen_request.system_prompt = DebuggingMode
    /\ Len(execution_history) = 1

\* C19 for the runner: after a call in which the child ran into the timeout,
\* the call has returned succeeded = false, an empty stdout and the timeout
\* message as stderr, whatever the child had written.
C19_TimeoutIsOrdinaryFailure ==
    last_call.called /\ last_call.timed_out =>
        /\ ~last_call.raised
        /\ ~last_call.success
        /\ last_call.stdout = ""
        /\ last_call.stderr = TimeoutMessage
\* a timeout after partial output was answered with the fixed failure
C19_Witness ==
    /\ last_call.called
    /\ last_call.timed_out
    /\ last_call.partial
    /\ ~last_call.raised
    /\ last_call.stdout = ""
    /\ last_call.stderr = TimeoutMessage

\* the sandbox call of this step returned succeeded = false
FailedExecution ==
    /\ pc = "execute"
    /\ sandbox_calls' = sandbox_calls + 1
    /\ ~last_call'.raised
    /\ ~last_call'.success

\* C20: when the execution of attempt n < max_attempts returns succeeded =
\* false, its record is appended to the attempts and the next step of the run
\* is the generation request for attempt n + 1; every generation request is
\* made with the attempts recorded so far.
C20_FailureIsNotFatal ==
    /\ [][FailedExecution /\ attempt + 1 < max_attempts =>
              /\ Len(all_attempts') = Len(all_attempts) + 1
              /\ SubSeq(all_attempts', 1, Len(all_attempts)) = all_attempts
              /\ Last(all_attempts').attempt = attempt + 1
              /\ ~Last(all_attempts').success
              /\ Last(all_attempts').stderr = last_call'.stderr
              /\ pc' = "generate"
              /\ attempt' = attempt + 1]_vars
    /\ [][pc = "generate" /\ gen_calls' = gen_calls + 1 =>
              /\ gen_request'.attempt_number = attempt + 1
              /\ gen_request'.previous_attempts = all_attempts]_vars
\* attempt 3 was requested with the records of a timeout and of a launch
\* failure
C20_Witness ==
    /\ gen_request.attempt_number = 3
    /\ Len(gen_request.previous_attempts) = 2
    /\ gen_request.previous_attempts[1].stderr = TimeoutMessage
    /\ ~gen_request.previous_attempts[1].success
    /\ gen_request.previous_attempts[2].stderr = ExecutionError("launch")
    /\ ~gen_request.previous_attempts[2].success


(***************************************************************************)
(* Suggestions of categorize_error.                                        *)
(***************************************************************************)
\* C21: a text that matches a signature (its category is not unknown) gets
\* exactly one suggestion, whichever sub-case of the signature it is.
C21_OneSuggestionPerSignature ==
    classified /\ error_info.category # "unknown" =>
        Len(error_info.suggestions) = 1
\* a TypeError of the sub-case takes ... positional argument was classified
\* and got its one suggestion
C21_Witness ==
    /\ classified
    /\ error_info.category = "type"
    /\ error_info.specific_issue = Issue("wrong_arguments", NoName)
    /\ Len(error_info.suggestions) = 1


(***************************************************************************)
(* Properties of the user prompt of a generation request.                  *)
(***************************************************************************)
\* the lines of a text that are copies of a given line, values put aside
LinesLike(text, line) ==
    {p \in 1..Len(text) : text[p].text = line.text}
\* part occurs in text from position p on
OccursAt(part, text, p) ==
    /\ p + Len(part) - 1 <= Len(text)
    /\ SubSeq(text, p, p + Len(part) - 1) = part
\* the request restates a diagnostic: it has the line of the category
Restates(req) == LinesLike(req.user_prompt, CategoryLine("")) # {}
\* the request carries the directive to try a different approach
HasDirective(req) ==
    \E p \in 1..Len(req.user_prompt) : OccursAt(MultipleFailures, req.user_prompt, p)
\* the request carries text of the learning context
HasLearningContext(req) ==
    \/ \E p \in 1..Len(req.user_prompt) : req.user_prompt[p] = Header[2]
    \/ LinesLike(req.user_prompt, CountLine("", 0)) # {}
    \/ LinesLike(req.user_prompt, AttemptLine(0, NoIssue)) # {}
    \/ LinesLike(req.user_prompt, FocusLine(0)) # {}

\* C22: the request for attempt 1 carries no learning context; a request for
\* attempt n > 1 carries the text built from the attempts so far; for n = 2
\* and n = 3 it restates category, issue and suggestions of the latest
\* record exactly when that record has a non-empty stderr; for n > 3 it
\* restates nothing and carries the directive to try a different approach.
C22_ContextByAttemptNumber ==
    gen_request # NoRequest =>
        LET n == gen_request.attempt_number
            h == gen_request.previous_attempts
            u == gen_request.user_prompt
        IN /\ n = 1 => ~HasLearningContext(gen_request) /\ ~Restates(gen_request)
                         /\ ~HasDirective(gen_request)
           /\ n > 1 => /\ build_learning_context(h) # <<>>
                       /\ OccursAt(build_learning_context(h), u, 2)
           /\ n \in {2, 3} =>
                 /\ Restates(gen_request) <=> (h[Len(h)].stderr # <<>>)
                 /\ ~HasDirective(gen_request)
                 /\ Restates(gen_request) =>
                       LET d == categorize_error(h[Len(h)].stderr)
                       IN \A p \in LinesLike(u, CategoryLine("")) :
                             OccursAt(<<CategoryLine(d.category),
                                        IssueLine(d.specific_issue),
                                        TextLine("Suggestions to fix:")>>
                                      \o [j \in 1..Len(d.suggestions) |->
                                             FixLine(d.suggestions[j])]
                                      \o <<TextLine("")>>, u, p)
           /\ n > 3 => ~Restates(gen_request) /\ HasDirective(gen_request)
\* attempt 3 was requested after a failure without stderr and a NameError,
\* which the request restates
C22_Witness ==
    /\ gen_request.attempt_number = 3
    /\ gen_request.previous_attempts[1].stderr = <<>>
    /\ gen_request.previous_attempts[2].stderr = NameErrorTraceback
    /\ Restates(gen_request)
    /\ gen_request.user_prompt[1] = TextLine("Original Task: task")


(***************************************************************************)
(* Order of the attempt records.                                           *)
(***************************************************************************)
\* the records are numbered 1, 2, ..., in this order
Numbered(recs) == \A i \in 1..Len(recs) : recs[i].attempt = i

\* C23: at every point of a run the attempts recorded so far are numbered
\* 1, 2, ..., k in this order and change only by an append at the end; the
\* generation request for attempt n is made with exactly n - 1 records, all
\* of them failed.
C23_RecordsInAttemptOrder ==
    /\ [](/\ Numbered(all_attempts)
          /\ LiveLogs = all_attempts
          /\ gen_request # NoRequest =>
                /\ Len(gen_request.previous_attempts) = gen_request.attempt_number - 1
                /\ Numbered(gen_request.previous_attempts)
                /\ AllFailed(gen_request.previous_attempts))
    /\ [][\/ all_attempts' = all_attempts
          \/ all_attempts' = <<>> /\ runs' = runs + 1
          \/ /\ Len(all_attempts') = Len(all_attempts) + 1
             /\ SubSeq(all_attempts', 1, Len(all_attempts)) = all_attempts]_vars
\* attempt 4 was requested, executed and recorded
C23_Witness ==
    /\ gen_request.attempt_number = 4
    /\ Len(gen_request.previous_attempts) = 3
    /\ Len(all_attempts) = 4
    /\ all_attempts[4].attempt = 4


(***************************************************************************)
(* The end of a run.                                                       *)
(***************************************************************************)
\* this step ends the run: execute_recursive_ai returns, after the
\* finalisation or from its handler of exceptions
RunEnds == pc \in {"generate", "execute", "finalize"} /\ pc' \in {"returned", "raised"}
\* the entries of the history and the lists they hold are as before
EntriesKept ==
    /\ Len(execution_history') >= Len(execution_history)
    /\ SubSeq(execution_history', 1, Len(execution_history)) = execution_history
    /\ \A i \in 1..Len(execution_history) :
          heap'[execution_history[i].logs] = heap[execution_history[i].logs]

\* C24: the step that ends a run, whichever way the run ends, leaves
\* is_running false and appends one entry to execution_history, whose success
\* flag is that of the last attempt record of the run (false when there is
\* none); the steps of the run before it append nothing; the entries of
\* earlier runs stay where and what they were.
C24_EveryRunLeavesOneEntry ==
    /\ [][RunEnds =>
              /\ ~is_running'
              /\ Len(execution_history') = Len(execution_history) + 1
              /\ Last(execution_history').success
                    <=> (all_attempts' # <<>> /\ Last(all_attempts').success)
              /\ EntriesKept]_vars
    /\ [][(pc \in {"generate", "execute", "finalize"}) /\ ~RunEnds =>
              is_running' /\ execution_history' = execution_history]_vars
    /\ [][(pc \in {"idle", "returned", "raised"}) /\ pc' = "generate" =>
              is_running' /\ execution_history' = execution_history]_vars
\* a second run has ended by its finalisation and left the second entry
C24_Witness ==
    /\ pc = "returned"
    /\ runs = 2
    /\ ~is_running
    /\ Len(execution_history) = 2
    /\ execution_history[1].success
    /\ ~execution_history[2].success

====
